---------------------------- MODULE Spec2Model ----------------------------
(***************************************************************************)
(* Model of src/blockchain.py: BlockchainManager.withdraw_usdt and the     *)
(* helpers it calls (validate_address, get_allowance, get_usdt_balance,    *)
(* estimate_gas, get_gas_price, wait_for_transaction), run against a       *)
(* chain client whose answers are nondeterministic.                        *)
(*                                                                         *)
(* Token quantities (the Python floats amount_usdt, allowance, balance)    *)
(* are counted in fractions 1/Resolution of 10^-6 USDT, so that the        *)
(* six-decimal formatting of the messages is a rounding and not the        *)
(* identity.  Gas prices are counted in wei, gas in gas units, time in     *)
(* seconds.                                                                *)
(***************************************************************************)
EXTENDS Integers, Sequences, FiniteSets, TLC

(***************************************************************************)
(* Bounds of the model.                                                    *)
(***************************************************************************)
MaxValue == 2        \* largest token quantity, in 1/Resolution micro-USDT
Resolution == 3      \* quantities per 10^-6 USDT
MaxCalls == 1        \* withdraw_usdt calls started in one behaviour

(***************************************************************************)
(* Configuration (config.py, imported at blockchain.py:11-14) and the      *)
(* literals of the code.                                                   *)
(***************************************************************************)
DEFAULT_GAS_LIMIT == 100000
DEFAULT_GAS_PRICE_GWEI == 1
WeiPerGwei == 1000000000
timeout == 120
POLL_INTERVAL == 2

None == 0 - 1

Calls == {"c1", "c2"}
SeqCalls == {"c1"}

\* Strings handed to withdraw_usdt as from_wallet; the client's is_address
\* accepts the well-formed ones.
AddressInputs == {"0xSource", "not-an-address"}
WellFormed == {"0xSource"}

Values == 0..MaxValue
GasEstimates == {50001}
LiveGasPrices == {9}

\* Exception classes the client raises.  All derive from Exception.
ExceptionKinds == {"ContractLogicError", "ValueError", "ConnectionError"}

VARIABLES
  frame,     \* frame[c]: position and locals of call c of withdraw_usdt
  rpc,       \* rpc[c]: how often call c has used each client method
  started,   \* number of withdraw_usdt calls started so far
  mempool,   \* transactions the node accepted and has not mined
  mined      \* mined transactions of the agent, in nonce order

vars == <<frame, rpc, started, mempool, mined>>


(***************************************************************************)
(* Values.                                                                 *)
(***************************************************************************)
\* The transaction a call has not built yet.
NoTx ==
  [from_wallet |-> "", amount |-> None, nonce |-> None, gas |-> None,
   gasPrice |-> None]

\* tx_hash of a signed transaction: the node's identifier of its content.
Hash(tx) == [preimage |-> tx]

NoHash == Hash(NoTx)

\* A receipt as wait_for_transaction returns it; NoReceipt is Python's None.
Receipt(status) == [found |-> TRUE, status |-> status]

NoReceipt == [found |-> FALSE, status |-> None]

\* f"{x:.6f}": x rounded to six decimals, as a count of 10^-6 USDT.
FormatFixed6(x) == (2 * x + Resolution) \div (2 * Resolution)

\* Faulty variant of BscLink: the link is built without the hash.
BscLink_withoutHash(tx_hash) ==
  [base |-> "https://bscscan.com/tx/", hash |-> NoHash]

\* f"https://bscscan.com/tx/{tx_hash_hex}"
BscLink(tx_hash) == [base |-> "https://bscscan.com/tx/", hash |-> tx_hash]

NoLink == BscLink(NoHash)

\* The message strings of withdraw_usdt: a text, the number formatted
\* into it (None when there is none), str(e) of the exception formatted
\* into it ("" when there is none) and the link formatted into it.
Message(text, number, error, link) ==
  [text |-> text, number |-> number, error |-> error, link |-> link]

NoMessage == Message("", None, "", NoLink)

\* The pair withdraw_usdt returns.
Result(success, message) == [success |-> success, message |-> message]

IdleFrame ==
  [pc |-> "idle", from_wallet |-> "", amount_usdt |-> None, valid |-> FALSE,
   allowance |-> None, balance |-> None, nonce |-> None,
   estimated |-> None, gas |-> None,
   current_gas_price |-> None, gasPrice |-> None,
   transaction |-> NoTx, signed_txn |-> NoTx, broadcast |-> NoTx,
   tx_hash |-> NoHash,
   elapsed |-> None, waited |-> "", tx_receipt |-> NoReceipt, raised |-> "",
   result |-> Result(FALSE, NoMessage)]

NoRpc ==
  [is_address |-> 0, allowance |-> 0, balanceOf |-> 0,
   get_transaction_count |-> 0, estimate_gas |-> 0, gas_price |-> 0,
   send_raw_transaction |-> 0, get_transaction_receipt |-> 0]

\* return success, message
Return(f, success, message) ==
  [f EXCEPT !.pc = "done", !.result = Result(success, message)]

(***************************************************************************)
(* The except clauses of withdraw_usdt.                                    *)
(***************************************************************************)
\* The classes an exception of class kind is an instance of.
Bases(kind) ==
  CASE kind = "ContractLogicError" -> {"ContractLogicError", "Exception"}
    [] kind = "ValueError" -> {"ValueError", "Exception"}
    [] kind = "ConnectionError" -> {"ConnectionError", "OSError", "Exception"}
    [] OTHER -> {kind}

\* Faulty variant of Except: the clause for Exception is missing.
Except_withoutCatchAll(f, kind) ==
  IF "ContractLogicError" \in Bases(kind)
  THEN Return(f, FALSE, Message("Smart contract error: ", None, kind, NoLink))
  ELSE IF "ValueError" \in Bases(kind)
  THEN Return(f, FALSE, Message("Transaction error: ", None, kind, NoLink))
  ELSE [f EXCEPT !.pc = "raised", !.raised = kind]

\* An exception of class kind leaves the try block of withdraw_usdt: the
\* first except clause that matches returns; with none matching the
\* exception propagates to the caller of withdraw_usdt.
Except(f, kind) ==
  IF "ContractLogicError" \in Bases(kind)
  THEN Return(f, FALSE, Message("Smart contract error: ", None, kind, NoLink))
  ELSE IF "ValueError" \in Bases(kind)
  THEN Return(f, FALSE, Message("Transaction error: ", None, kind, NoLink))
  ELSE IF "Exception" \in Bases(kind)
  THEN Return(f, FALSE, Message("Unexpected error: ", None, kind, NoLink))
  ELSE [f EXCEPT !.pc = "raised", !.raised = kind]

(***************************************************************************)
(* withdraw_usdt, step by step.  Each operator gives the frame after the   *)
(* lines it names, from the frame before them and the client's answer.     *)
(***************************************************************************)
\* validate_address: is_address's answer, False when is_address raised.
validate_address(address, is_address_raised) ==
  IF is_address_raised THEN FALSE ELSE address \in WellFormed

\* Faulty variant of AfterValidate: the answer of validate_address is
\* not acted on.
AfterValidate_proceeds(f, valid) ==
  [f EXCEPT !.valid = valid, !.pc = "allowance"]

\* Lines 121-125, valid being what validate_address returned.
AfterValidate(f, valid) ==
  IF ~valid
  THEN Return([f EXCEPT !.valid = valid], FALSE,
              Message("Invalid wallet address", None, "", NoLink))
  ELSE [f EXCEPT !.valid = valid, !.pc = "allowance"]

\* Faulty variant of AfterAllowance: the allowance is fetched and not
\* judged before the balance is.
AfterAllowance_unchecked(f, allowance) ==
  [f EXCEPT !.allowance = allowance, !.pc = "balance"]

\* Faulty variant of AfterAllowance: the message reports the amount asked
\* for instead of the allowance.
AfterAllowance_reportsAmount(f, allowance) ==
  IF allowance = None
  THEN Return([f EXCEPT !.allowance = allowance], FALSE,
              Message("Failed to check allowance", None, "", NoLink))
  ELSE IF allowance < f.amount_usdt
  THEN Return([f EXCEPT !.allowance = allowance], FALSE,
              Message("Insufficient allowance. Available: ",
                      FormatFixed6(f.amount_usdt), "", NoLink))
  ELSE [f EXCEPT !.allowance = allowance, !.pc = "balance"]

\* Lines 128-133, allowance being what get_allowance returned (None when
\* the contract call raised).
AfterAllowance(f, allowance) ==
  IF allowance = None
  THEN Return([f EXCEPT !.allowance = allowance], FALSE,
              Message("Failed to check allowance", None, "", NoLink))
  ELSE IF allowance < f.amount_usdt
  THEN Return([f EXCEPT !.allowance = allowance], FALSE,
              Message("Insufficient allowance. Available: ",
                      FormatFixed6(allowance), "", NoLink))
  ELSE [f EXCEPT !.allowance = allowance, !.pc = "balance"]

\* Faulty variant of AfterBalance: a balance below the amount passes.
AfterBalance_unchecked(f, balance) ==
  IF balance = None
  THEN Return([f EXCEPT !.balance = balance], FALSE,
              Message("Failed to check wallet balance", None, "", NoLink))
  ELSE [f EXCEPT !.balance = balance, !.pc = "nonce"]

\* Faulty variant of AfterBalance: the message reports the allowance
\* instead of the balance.
AfterBalance_reportsAllowance(f, balance) ==
  IF balance = None
  THEN Return([f EXCEPT !.balance = balance], FALSE,
              Message("Failed to check wallet balance", None, "", NoLink))
  ELSE IF balance < f.amount_usdt
  THEN Return([f EXCEPT !.balance = balance], FALSE,
              Message("Insufficient balance. Available: ",
                      FormatFixed6(f.allowance), "", NoLink))
  ELSE [f EXCEPT !.balance = balance, !.pc = "nonce"]

\* Lines 136-141, balance being what get_usdt_balance returned.
AfterBalance(f, balance) ==
  IF balance = None
  THEN Return([f EXCEPT !.balance = balance], FALSE,
              Message("Failed to check wallet balance", None, "", NoLink))
  ELSE IF balance < f.amount_usdt
  THEN Return([f EXCEPT !.balance = balance], FALSE,
              Message("Insufficient balance. Available: ",
                      FormatFixed6(balance), "", NoLink))
  ELSE [f EXCEPT !.balance = balance, !.pc = "nonce"]

\* estimate_gas: the estimate with a 20% buffer, rounded down, or the
\* default when eth.estimate_gas raised (estimated = None).
estimate_gas(estimated) ==
  IF estimated = None THEN DEFAULT_GAS_LIMIT ELSE estimated + estimated \div 5

\* w3.to_wei(n, "gwei")
to_wei_gwei(n) == n * WeiPerGwei

\* Faulty variant of get_gas_price: the default is returned in gwei.
get_gas_price_unconverted(current_gas_price) ==
  IF current_gas_price = None
  THEN DEFAULT_GAS_PRICE_GWEI
  ELSE current_gas_price + current_gas_price \div 5

\* get_gas_price: the live price with a 20% premium, rounded down, or the
\* default when eth.gas_price raised (current_gas_price = None).
get_gas_price(current_gas_price) ==
  IF current_gas_price = None
  THEN to_wei_gwei(DEFAULT_GAS_PRICE_GWEI)
  ELSE current_gas_price + current_gas_price \div 5

\* Lines 146-161: the dictionary build_transaction returns.  The payload
\* transferFrom(from_wallet, my_address, amount_wei) is given by from_wallet
\* and the amount; amount_wei is a function of amount_usdt (line 125).
build_transaction(f) ==
  [from_wallet |-> f.from_wallet, amount |-> f.amount_usdt,
   nonce |-> f.nonce, gas |-> f.gas, gasPrice |-> f.gasPrice]

\* Faulty variant of AfterWait: any receipt counts as success.
AfterWait_ignoresStatus(f, tx_receipt) ==
  IF tx_receipt.found
  THEN Return([f EXCEPT !.tx_receipt = tx_receipt], TRUE,
              Message("Successfully withdrawn ",
                      FormatFixed6(f.amount_usdt), "", BscLink(f.tx_hash)))
  ELSE Return([f EXCEPT !.tx_receipt = tx_receipt], FALSE,
              Message("Transaction failed or was reverted", None, "", NoLink))

\* Lines 172-177, tx_receipt being what wait_for_transaction returned.
AfterWait(f, tx_receipt) ==
  IF tx_receipt.found /\ tx_receipt.status = 1
  THEN Return([f EXCEPT !.tx_receipt = tx_receipt], TRUE,
              Message("Successfully withdrawn ",
                      FormatFixed6(f.amount_usdt), "", BscLink(f.tx_hash)))
  ELSE Return([f EXCEPT !.tx_receipt = tx_receipt], FALSE,
              Message("Transaction failed or was reverted", None, "", NoLink))

(***************************************************************************)
(* The chain client's state as the calls see it.                           *)
(***************************************************************************)
\* eth.get_transaction_count(my_address): the agent's mined transactions.
get_transaction_count == Len(mined)

\* The receipt of tx_hash, NoReceipt while the transaction is not mined.
get_transaction_receipt(tx_hash) ==
  IF \E i \in 1..Len(mined) : Hash(mined[i].tx) = tx_hash
  THEN Receipt((CHOOSE m \in {mined[i] : i \in 1..Len(mined)} :
                  Hash(m.tx) = tx_hash).status)
  ELSE NoReceipt

\* Whether the node takes a raw transaction: not one it already knows, and
\* not one whose nonce is used up.
NodeAccepts(tx) ==
  /\ tx \notin mempool
  /\ \A i \in 1..Len(mined) : mined[i].tx # tx
  /\ tx.nonce >= Len(mined)

(***************************************************************************)
(* Actions.                                                                *)
(***************************************************************************)
Step(c, f) == frame' = [frame EXCEPT ![c] = f]

Count(c, method) == rpc' = [rpc EXCEPT ![c][method] = @ + 1]

\* A caller calls withdraw_usdt(from_wallet, amount_usdt); the call before
\* it on this thread has returned.
Withdraw(c) ==
  /\ frame[c].pc \in {"idle", "done", "raised"}
  /\ started < MaxCalls
  /\ \E from_wallet \in AddressInputs, amount_usdt \in Values :
       Step(c, [IdleFrame EXCEPT !.pc = "validate",
                                 !.from_wallet = from_wallet,
                                 !.amount_usdt = amount_usdt])
  /\ rpc' = [rpc EXCEPT ![c] = NoRpc]
  /\ started' = started + 1
  /\ UNCHANGED <<mempool, mined>>

\* Lines 121-125.
ValidateAddress(c) ==
  /\ frame[c].pc = "validate"
  /\ \E is_address_raised \in BOOLEAN :
       Step(c, AfterValidate(frame[c],
                 validate_address(frame[c].from_wallet, is_address_raised)))
  /\ Count(c, "is_address")
  /\ UNCHANGED <<started, mempool, mined>>

\* Lines 128-133; the allowance is whatever the chain holds at this moment.
GetAllowance(c) ==
  /\ frame[c].pc = "allowance"
  /\ \E allowance \in Values \cup {None} :
       Step(c, AfterAllowance(frame[c], allowance))
  /\ Count(c, "allowance")
  /\ UNCHANGED <<started, mempool, mined>>

\* Lines 136-141.
GetBalance(c) ==
  /\ frame[c].pc = "balance"
  /\ \E balance \in Values \cup {None} :
       Step(c, AfterBalance(frame[c], balance))
  /\ Count(c, "balanceOf")
  /\ UNCHANGED <<started, mempool, mined>>

\* Faulty variant of GetTransactionCount: the nonce is read under a lock
\* held until the broadcast, so no call reads it while another call holds
\* a nonce it has not broadcast.
GetTransactionCount_serialized(c) ==
  /\ frame[c].pc = "nonce"
  /\ \A d \in Calls \ {c} :
       frame[d].pc \notin {"estimate", "gasprice", "build", "sign", "send"}
  /\ \/ Step(c, [frame[c] EXCEPT !.nonce = get_transaction_count,
                                 !.pc = "estimate"])
     \/ \E kind \in ExceptionKinds : Step(c, Except(frame[c], kind))
  /\ Count(c, "get_transaction_count")
  /\ UNCHANGED <<started, mempool, mined>>

\* Line 144.
GetTransactionCount(c) ==
  /\ frame[c].pc = "nonce"
  /\ \/ Step(c, [frame[c] EXCEPT !.nonce = get_transaction_count,
                                 !.pc = "estimate"])
     \/ \E kind \in ExceptionKinds : Step(c, Except(frame[c], kind))
  /\ Count(c, "get_transaction_count")
  /\ UNCHANGED <<started, mempool, mined>>

\* Faulty variant of EstimateGas: estimate_gas has no fallback, a failed
\* estimate leaves the try block of withdraw_usdt.
EstimateGas_propagates(c) ==
  /\ frame[c].pc = "estimate"
  /\ \E estimated \in GasEstimates \cup {None} :
       Step(c, IF estimated = None
               THEN Except([frame[c] EXCEPT !.estimated = estimated],
                           "ContractLogicError")
               ELSE [frame[c] EXCEPT !.estimated = estimated,
                                     !.gas = estimate_gas(estimated),
                                     !.pc = "gasprice"])
  /\ Count(c, "estimate_gas")
  /\ UNCHANGED <<started, mempool, mined>>

\* Lines 153-159.
EstimateGas(c) ==
  /\ frame[c].pc = "estimate"
  /\ \E estimated \in GasEstimates \cup {None} :
       Step(c, [frame[c] EXCEPT !.estimated = estimated,
                                !.gas = estimate_gas(estimated),
                                !.pc = "gasprice"])
  /\ Count(c, "estimate_gas")
  /\ UNCHANGED <<started, mempool, mined>>

\* Line 160.
GetGasPrice(c) ==
  /\ frame[c].pc = "gasprice"
  /\ \E current_gas_price \in LiveGasPrices \cup {None} :
       Step(c, [frame[c] EXCEPT !.current_gas_price = current_gas_price,
                                !.gasPrice = get_gas_price(current_gas_price),
                                !.pc = "build"])
  /\ Count(c, "gas_price")
  /\ UNCHANGED <<started, mempool, mined>>

\* Lines 146-161.
BuildTransaction(c) ==
  /\ frame[c].pc = "build"
  /\ \/ Step(c, [frame[c] EXCEPT !.transaction = build_transaction(frame[c]),
                                 !.pc = "sign"])
     \/ \E kind \in ExceptionKinds : Step(c, Except(frame[c], kind))
  /\ UNCHANGED <<rpc, started, mempool, mined>>

\* Lines 164-165.
SignTransaction(c) ==
  /\ frame[c].pc = "sign"
  /\ \/ Step(c, [frame[c] EXCEPT !.signed_txn = frame[c].transaction,
                                 !.pc = "send"])
     \/ \E kind \in ExceptionKinds : Step(c, Except(frame[c], kind))
  /\ UNCHANGED <<rpc, started, mempool, mined>>

\* Faulty variant of SendRawTransaction: a rejected broadcast is logged
\* and the call goes on to wait for a receipt.
SendRawTransaction_pollsAnyway(c) ==
  /\ frame[c].pc = "send"
  /\ \/ /\ NodeAccepts(frame[c].signed_txn)
        /\ mempool' = mempool \cup {frame[c].signed_txn}
        /\ Step(c, [frame[c] EXCEPT !.broadcast = frame[c].signed_txn,
                                    !.tx_hash = Hash(frame[c].signed_txn),
                                    !.elapsed = 0,
                                    !.pc = "poll"])
     \/ /\ Step(c, [frame[c] EXCEPT !.elapsed = 0, !.pc = "poll"])
        /\ UNCHANGED mempool
  /\ Count(c, "send_raw_transaction")
  /\ UNCHANGED <<started, mined>>

\* Faulty variant of SendRawTransaction: a rejected broadcast is tried
\* again.
SendRawTransaction_retries(c) ==
  /\ frame[c].pc = "send"
  /\ \/ /\ NodeAccepts(frame[c].signed_txn)
        /\ mempool' = mempool \cup {frame[c].signed_txn}
        /\ Step(c, [frame[c] EXCEPT !.broadcast = frame[c].signed_txn,
                                    !.tx_hash = Hash(frame[c].signed_txn),
                                    !.elapsed = 0,
                                    !.pc = "poll"])
     \/ /\ rpc[c].send_raw_transaction < 2
        /\ UNCHANGED <<frame, mempool>>
  /\ Count(c, "send_raw_transaction")
  /\ UNCHANGED <<started, mined>>

\* Lines 166-167 and 192: the node takes the transaction and the poller
\* starts its clock, or the node rejects it and send_raw_transaction raises.
SendRawTransaction(c) ==
  /\ frame[c].pc = "send"
  /\ \/ /\ NodeAccepts(frame[c].signed_txn)
        /\ mempool' = mempool \cup {frame[c].signed_txn}
        /\ Step(c, [frame[c] EXCEPT !.broadcast = frame[c].signed_txn,
                                    !.tx_hash = Hash(frame[c].signed_txn),
                                    !.elapsed = 0,
                                    !.pc = "poll"])
     \/ /\ \E kind \in ExceptionKinds : Step(c, Except(frame[c], kind))
        /\ UNCHANGED mempool
  /\ Count(c, "send_raw_transaction")
  /\ UNCHANGED <<started, mined>>

(***************************************************************************)
(* wait_for_transaction, inlined at line 170.  frame[c].elapsed is         *)
(* time.time() - start_time; frame[c].waited records how the wait ended,   *)
(* frame[c].valid what validate_address returned and frame[c].broadcast    *)
(* the raw transaction the node took from this call.                       *)
(***************************************************************************)
\* Line 193: the loop condition.
Polling(f) == f.pc = "poll" /\ f.elapsed < timeout

\* Faulty variant of PollAgain: start_time is taken anew in every round.
PollAgain_restartsClock(f) == [f EXCEPT !.elapsed = 0]

\* Lines 199-201: TransactionNotFound, sleep and go round again.
PollAgain(f) == [f EXCEPT !.elapsed = f.elapsed + POLL_INTERVAL]

\* Lines 195-198, then 172-177 of the caller.
ReceiptFound(c) ==
  /\ Polling(frame[c])
  /\ get_transaction_receipt(frame[c].tx_hash).found
  /\ Step(c, AfterWait([frame[c] EXCEPT !.waited = "receipt"],
                       get_transaction_receipt(frame[c].tx_hash)))
  /\ Count(c, "get_transaction_receipt")
  /\ UNCHANGED <<started, mempool, mined>>

\* Faulty variant of ReceiptNotFound: TransactionNotFound ends the wait.
ReceiptNotFound_aborts(c) ==
  /\ Polling(frame[c])
  /\ ~get_transaction_receipt(frame[c].tx_hash).found
  /\ Step(c, AfterWait([frame[c] EXCEPT !.waited = "timeout"], NoReceipt))
  /\ Count(c, "get_transaction_receipt")
  /\ UNCHANGED <<started, mempool, mined>>

\* Lines 199-201.
ReceiptNotFound(c) ==
  /\ Polling(frame[c])
  /\ ~get_transaction_receipt(frame[c].tx_hash).found
  /\ Step(c, PollAgain(frame[c]))
  /\ Count(c, "get_transaction_receipt")
  /\ UNCHANGED <<started, mempool, mined>>

\* Faulty variant of ReceiptError: wait_for_transaction has no outer try,
\* the error leaves it and reaches the except clauses of withdraw_usdt.
ReceiptError_propagates(c) ==
  /\ Polling(frame[c])
  /\ \E kind \in ExceptionKinds :
       Step(c, Except([frame[c] EXCEPT !.waited = "error"], kind))
  /\ Count(c, "get_transaction_receipt")
  /\ UNCHANGED <<started, mempool, mined>>

\* Lines 206-208: the lookup raised something else than TransactionNotFound.
ReceiptError(c) ==
  /\ Polling(frame[c])
  /\ Step(c, AfterWait([frame[c] EXCEPT !.waited = "error"], NoReceipt))
  /\ Count(c, "get_transaction_receipt")
  /\ UNCHANGED <<started, mempool, mined>>

\* Faulty variant of WaitTimeout: giving up the wait withdraws the
\* transaction from the node.
WaitTimeout_cancels(c) ==
  /\ frame[c].pc = "poll"
  /\ ~Polling(frame[c])
  /\ Step(c, AfterWait([frame[c] EXCEPT !.waited = "timeout"], NoReceipt))
  /\ mempool' = mempool \ {frame[c].broadcast}
  /\ UNCHANGED <<rpc, started, mined>>

\* Lines 203-204: the loop condition is false.
WaitTimeout(c) ==
  /\ frame[c].pc = "poll"
  /\ ~Polling(frame[c])
  /\ Step(c, AfterWait([frame[c] EXCEPT !.waited = "timeout"], NoReceipt))
  /\ UNCHANGED <<rpc, started, mempool, mined>>

(***************************************************************************)
(* The chain: a pending transaction whose nonce is the next one is mined,  *)
(* and its transferFrom succeeds (status 1) or reverts (status 0).         *)
(***************************************************************************)
Mine ==
  /\ \E tx \in mempool, status \in {0, 1} :
       /\ tx.nonce = Len(mined)
       /\ mined' = Append(mined, [tx |-> tx, status |-> status])
       /\ mempool' = mempool \ {tx}
  /\ UNCHANGED <<frame, rpc, started>>

Init ==
  /\ frame = [c \in Calls |-> IdleFrame]
  /\ rpc = [c \in Calls |-> NoRpc]
  /\ started = 0
  /\ mempool = {}
  /\ mined = <<>>

CallStep(c) ==
  \/ Withdraw(c)
  \/ ValidateAddress(c)
  \/ GetAllowance(c)
  \/ GetBalance(c)
  \/ GetTransactionCount(c)
  \/ EstimateGas(c)
  \/ GetGasPrice(c)
  \/ BuildTransaction(c)
  \/ SignTransaction(c)
  \/ SendRawTransaction(c)
  \/ ReceiptFound(c)
  \/ ReceiptNotFound(c)
  \/ ReceiptError(c)
  \/ WaitTimeout(c)

\* One caller: the calls of withdraw_usdt follow one another.
Next == (\E c \in SeqCalls : CallStep(c)) \/ Mine

Spec == Init /\ [][Next]_vars

(***************************************************************************)
(* Two callers at once, each calling withdraw_usdt once on the shared      *)
(* blockchain_manager: their steps interleave, up to the broadcast.        *)
(***************************************************************************)
\* A caller that has not called yet calls withdraw_usdt.
WithdrawOnce(c) ==
  /\ frame[c].pc = "idle"
  /\ \E from_wallet \in AddressInputs, amount_usdt \in Values :
       Step(c, [IdleFrame EXCEPT !.pc = "validate",
                                 !.from_wallet = from_wallet,
                                 !.amount_usdt = amount_usdt])
  /\ rpc' = [rpc EXCEPT ![c] = NoRpc]
  /\ UNCHANGED <<started, mempool, mined>>

StepToBroadcast(c) ==
  \/ WithdrawOnce(c)
  \/ ValidateAddress(c)
  \/ GetAllowance(c)
  \/ GetBalance(c)
  \/ GetTransactionCount(c)
  \/ EstimateGas(c)
  \/ GetGasPrice(c)
  \/ BuildTransaction(c)
  \/ SignTransaction(c)
  \/ SendRawTransaction(c)

NextConcurrent == (\E c \in Calls : StepToBroadcast(c)) \/ Mine

SpecConcurrent == Init /\ [][NextConcurrent]_vars

(***************************************************************************)
(* One call of withdraw_usdt that is not held up: every client call it     *)
(* makes returns or raises, and sleep returns, so a call that can take a   *)
(* step takes one.                                                         *)
(***************************************************************************)
\* The steps of a call after its start.
Run(c) ==
  \/ ValidateAddress(c)
  \/ GetAllowance(c)
  \/ GetBalance(c)
  \/ GetTransactionCount(c)
  \/ EstimateGas(c)
  \/ GetGasPrice(c)
  \/ BuildTransaction(c)
  \/ SignTransaction(c)
  \/ SendRawTransaction(c)
  \/ ReceiptFound(c)
  \/ ReceiptNotFound(c)
  \/ ReceiptError(c)
  \/ WaitTimeout(c)

NextOnce == (\E c \in SeqCalls : WithdrawOnce(c) \/ Run(c)) \/ Mine

SpecFair ==
  /\ Init
  /\ [][NextOnce]_vars
  /\ \A c \in SeqCalls : WF_vars(Run(c))

(***************************************************************************)
(* A call of withdraw_usdt made after an earlier call timed out: the       *)
(* earlier call broadcast a transaction with nonce 0, polled for 120 s     *)
(* without a receipt and returned; its transaction is still pending.       *)
(***************************************************************************)
\* The transactions the earlier call can have broadcast.
EarlierTransactions ==
  {build_transaction([IdleFrame EXCEPT !.from_wallet = "0xSource",
                                       !.amount_usdt = amount_usdt,
                                       !.nonce = 0,
                                       !.gas = estimate_gas(estimated),
                                       !.gasPrice = get_gas_price(price)]) :
     amount_usdt \in Values,
     estimated \in GasEstimates \cup {None},
     price \in LiveGasPrices \cup {None}}

InitRetry ==
  /\ frame = [c \in Calls |-> IdleFrame]
  /\ rpc = [c \in Calls |-> NoRpc]
  /\ started = 0
  /\ mempool \in {{tx} : tx \in EarlierTransactions}
  /\ mined = <<>>

SpecRetry == InitRetry /\ [][Next]_vars

(***************************************************************************)
(* Properties of withdraw_usdt.                                            *)
(***************************************************************************)
Returned(c) == frame[c].pc = "done"

\* Client methods that talk to the chain.
ChainMethods ==
  {"allowance", "balanceOf", "get_transaction_count", "estimate_gas",
   "gas_price", "send_raw_transaction", "get_transaction_receipt"}

\* C1: a call that read an allowance below the amount has returned
\* (False, "Insufficient allowance. Available: <the allowance read, to six
\* decimals> USDT") and has not called send_raw_transaction.
C1_InsufficientAllowance ==
  \A c \in Calls :
    (frame[c].allowance # None /\ frame[c].allowance < frame[c].amount_usdt)
    => /\ Returned(c)
       /\ frame[c].result.success = FALSE
       /\ frame[c].result.message.text = "Insufficient allowance. Available: "
       /\ frame[c].result.message.number = FormatFixed6(frame[c].allowance)
       /\ rpc[c].send_raw_transaction = 0

\* A returned call whose allowance read was below the amount, and rounds
\* to another number than the amount does.
C1_Witness ==
  \E c \in Calls :
    /\ Returned(c)
    /\ frame[c].allowance # None
    /\ frame[c].allowance < frame[c].amount_usdt
    /\ FormatFixed6(frame[c].allowance) # FormatFixed6(frame[c].amount_usdt)

\* C2: a call that read an allowance of at least the amount and then a
\* balance below the amount has returned (False, "Insufficient balance.
\* Available: <the balance read, to six decimals> USDT") and has not called
\* send_raw_transaction.
C2_InsufficientBalance ==
  \A c \in Calls :
    (/\ frame[c].allowance # None
     /\ frame[c].allowance >= frame[c].amount_usdt
     /\ frame[c].balance # None
     /\ frame[c].balance < frame[c].amount_usdt)
    => /\ Returned(c)
       /\ frame[c].result.success = FALSE
       /\ frame[c].result.message.text = "Insufficient balance. Available: "
       /\ frame[c].result.message.number = FormatFixed6(frame[c].balance)
       /\ rpc[c].send_raw_transaction = 0

\* A returned call with enough allowance and too little balance.
C2_Witness ==
  \E c \in Calls :
    /\ Returned(c)
    /\ frame[c].allowance >= frame[c].amount_usdt
    /\ frame[c].balance # None
    /\ frame[c].balance < frame[c].amount_usdt
    /\ FormatFixed6(frame[c].balance) # FormatFixed6(frame[c].allowance)

\* C3: a call whose broadcast was accepted and whose poller got a receipt
\* with status 0 has returned (False, ...).
C3_RevertIsFailure ==
  \A c \in Calls :
    (frame[c].broadcast # NoTx /\ frame[c].tx_receipt = Receipt(0))
    => Returned(c) /\ frame[c].result.success = FALSE

\* A call has got the status 0 receipt of the transaction it broadcast.
C3_Witness ==
  \E c \in Calls :
    /\ frame[c].broadcast # NoTx
    /\ frame[c].tx_receipt = Receipt(0)
    /\ \E i \in 1..Len(mined) :
         mined[i].tx = frame[c].broadcast /\ mined[i].status = 0

\* C4: no call of withdraw_usdt calls send_raw_transaction more than once.
C4_AtMostOneBroadcast ==
  \A c \in Calls : rpc[c].send_raw_transaction <= 1

\* A call has returned after the node rejected its one broadcast.
C4_Witness ==
  \E c \in Calls :
    /\ Returned(c)
    /\ rpc[c].send_raw_transaction = 1
    /\ frame[c].broadcast = NoTx
    /\ frame[c].result.success = FALSE

\* C5: a call whose broadcast was accepted and whose poller timed out has
\* returned (False, message) with another message than the one returned
\* for a receipt with status 0.
C5_TimeoutDistinctFromRevert ==
  \A c \in Calls :
    (frame[c].broadcast # NoTx /\ frame[c].waited = "timeout")
    => /\ Returned(c)
       /\ frame[c].result.success = FALSE
       /\ frame[c].result.message.text
            # AfterWait(frame[c], Receipt(0)).result.message.text

\* C6: a call whose address validate_address turned down has returned
\* (False, "Invalid wallet address") without any chain query.
C6_InvalidAddress ==
  \A c \in Calls :
    (frame[c].pc \notin {"idle", "validate"} /\ ~frame[c].valid)
    => /\ Returned(c)
       /\ frame[c].result
            = Result(FALSE, Message("Invalid wallet address", None, "", NoLink))
       /\ \A method \in ChainMethods : rpc[c][method] = 0

\* A call with a malformed address has been through validation.
C6_Witness ==
  \E c \in Calls :
    /\ Returned(c)
    /\ frame[c].from_wallet \notin WellFormed
    /\ rpc[c].is_address = 1

\* C7: a call whose broadcast was accepted and whose poller got a receipt
\* with status 1 has returned (True, message), the message holding the
\* amount asked for, to six decimals, and the explorer link of the hash of
\* the transaction this call broadcast.
C7_SuccessMessage ==
  \A c \in Calls :
    (frame[c].broadcast # NoTx /\ frame[c].tx_receipt = Receipt(1))
    => /\ Returned(c)
       /\ frame[c].result.success = TRUE
       /\ frame[c].result.message.number = FormatFixed6(frame[c].amount_usdt)
       /\ frame[c].result.message.link.base = "https://bscscan.com/tx/"
       /\ frame[c].result.message.link.hash = Hash(frame[c].broadcast)
       /\ frame[c].broadcast.amount = frame[c].amount_usdt
       /\ frame[c].broadcast.from_wallet = frame[c].from_wallet

\* A call has got the status 1 receipt of the transaction it broadcast.
C7_Witness ==
  \E c \in Calls :
    /\ frame[c].broadcast # NoTx
    /\ frame[c].tx_receipt = Receipt(1)
    /\ \E i \in 1..Len(mined) :
         mined[i].tx = frame[c].broadcast /\ mined[i].status = 1

\* C8: no exception leaves withdraw_usdt, and a call that returned
\* without a status 1 receipt returned (False, message) with a message.
C8_NoEscape ==
  \A c \in Calls :
    /\ frame[c].pc # "raised"
    /\ (Returned(c) /\ frame[c].tx_receipt # Receipt(1))
       => /\ frame[c].result.success = FALSE
          /\ frame[c].result.message.text # ""

\* A call has returned through the clause for Exception: the client raised
\* neither a ContractLogicError nor a ValueError.
C8_Witness ==
  \E c \in Calls :
    /\ Returned(c)
    /\ frame[c].result.message.text = "Unexpected error: "
    /\ frame[c].result.message.error = "ConnectionError"

\* C9: once a call has asked for the gas price, its gas price is the
\* default, in wei, when the query failed, and 1.2 times the live price,
\* rounded down, when it did not; the call goes on to build either way.
C9_GasPrice ==
  \A c \in Calls :
    rpc[c].gas_price > 0
    => /\ frame[c].pc # "raised"
       /\ frame[c].current_gas_price = None
          => frame[c].gasPrice = DEFAULT_GAS_PRICE_GWEI * 1000000000
       /\ frame[c].current_gas_price # None
          => /\ 10 * frame[c].gasPrice <= 12 * frame[c].current_gas_price
             /\ 10 * (frame[c].gasPrice + 1) > 12 * frame[c].current_gas_price

\* A call's gas price query has failed and the call is about to build.
C9_Witness ==
  \E c \in Calls :
    /\ rpc[c].gas_price = 1
    /\ frame[c].current_gas_price = None
    /\ frame[c].pc = "build"

\* A fee step of call c: it goes from asking for the estimate to asking
\* for the price, or from asking for the price to building.
FeeStepGoesOn(c) ==
  /\ frame[c].pc = "estimate" => frame'[c].pc \in {"estimate", "gasprice"}
  /\ frame[c].pc = "gasprice" => frame'[c].pc \in {"gasprice", "build"}

\* The fee parameters the call uses are the defaults where the read failed.
DefaultsUsed(c) ==
  /\ (rpc[c].estimate_gas > 0 /\ frame[c].estimated = None)
     => /\ frame[c].gas = DEFAULT_GAS_LIMIT
        /\ frame[c].transaction # NoTx
           => frame[c].transaction.gas = DEFAULT_GAS_LIMIT
        /\ frame[c].broadcast # NoTx
           => frame[c].broadcast.gas = DEFAULT_GAS_LIMIT
  /\ (rpc[c].gas_price > 0 /\ frame[c].current_gas_price = None)
     => /\ frame[c].transaction # NoTx
           => frame[c].transaction.gasPrice = to_wei_gwei(DEFAULT_GAS_PRICE_GWEI)
        /\ frame[c].broadcast # NoTx
           => frame[c].broadcast.gasPrice = to_wei_gwei(DEFAULT_GAS_PRICE_GWEI)

\* C10: no fee read ends a call: after the gas estimate the call asks for
\* the gas price and after the gas price it builds, whether the read
\* failed or not, and the transaction built and broadcast after a failed
\* read carries the default gas limit, the default gas price, or both.
C10_FeeFailureNotSurfaced ==
  /\ [](\A c \in Calls : DefaultsUsed(c))
  /\ [][\A c \in Calls : FeeStepGoesOn(c)]_vars

\* A call has broadcast, and returned success, after both fee reads failed.
C10_Witness ==
  \E c \in Calls :
    /\ frame[c].estimated = None
    /\ frame[c].current_gas_price = None
    /\ rpc[c].estimate_gas = 1
    /\ rpc[c].gas_price = 1
    /\ frame[c].broadcast # NoTx
    /\ frame[c].broadcast.gas = DEFAULT_GAS_LIMIT
    /\ frame[c].result.success = TRUE

\* C11: with two calls in progress nothing holds back the nonce read: a
\* call that is about to read the agent's transaction count can read it
\* whatever the other call is doing, also while the other call holds a
\* nonce it has read and not yet broadcast; so both can read the same
\* count and each sign and broadcast a transaction with it (C11_Witness).
C11_NonceReadNotSerialized ==
  \A c \in Calls :
    frame[c].pc = "nonce" => ENABLED GetTransactionCount(c)

\* Two calls have read the same transaction count, and each has signed a
\* transaction with that nonce and handed it to send_raw_transaction.
C11_Witness ==
  \E c \in Calls, d \in Calls :
    /\ c # d
    /\ frame[c].signed_txn # NoTx
    /\ frame[d].signed_txn # NoTx
    /\ frame[c].signed_txn.nonce = frame[d].signed_txn.nonce
    /\ frame[c].nonce = frame[d].nonce
    /\ rpc[c].send_raw_transaction = 1
    /\ rpc[d].send_raw_transaction = 1

\* The call is between its start and its return.
Running(c) == frame[c].pc \notin {"idle", "done", "raised"}

\* The lookups the poll loop can make at most.
MaxPolls == (timeout + POLL_INTERVAL - 1) \div POLL_INTERVAL

\* The lookups the poll loop can still make.
PollsLeft(f) ==
  IF f.elapsed < timeout
  THEN (timeout - f.elapsed + POLL_INTERVAL - 1) \div POLL_INTERVAL
  ELSE 0

\* An upper bound of the steps a call has left.
StepsLeft(f) ==
  CASE f.pc = "validate" -> MaxPolls + 10
    [] f.pc = "allowance" -> MaxPolls + 9
    [] f.pc = "balance" -> MaxPolls + 8
    [] f.pc = "nonce" -> MaxPolls + 7
    [] f.pc = "estimate" -> MaxPolls + 6
    [] f.pc = "gasprice" -> MaxPolls + 5
    [] f.pc = "build" -> MaxPolls + 4
    [] f.pc = "sign" -> MaxPolls + 3
    [] f.pc = "send" -> MaxPolls + 2
    [] f.pc = "poll" -> PollsLeft(f) + 1
    [] OTHER -> 0

\* Every step of a running call brings it nearer to its return.
StepsLeftDecreases ==
  \A c \in Calls :
    (Running(c) /\ (frame'[c] # frame[c] \/ rpc'[c] # rpc[c]))
    => StepsLeft(frame'[c]) < StepsLeft(frame[c])

\* C12: a call of withdraw_usdt that is not held up returns: once started
\* it reaches its return, every step it takes leaves it fewer steps to
\* take, and the poll loop makes MaxPolls lookups at most.
C12_Terminates ==
  /\ \A c \in Calls : Running(c) ~> Returned(c)
  /\ [][StepsLeftDecreases]_vars
  /\ [](\A c \in Calls : rpc[c].get_transaction_receipt <= MaxPolls)

\* A call has returned after the poll loop ran to the timeout without
\* ever finding a receipt.
C12_Witness ==
  \E c \in Calls :
    /\ Returned(c)
    /\ frame[c].waited = "timeout"
    /\ rpc[c].get_transaction_receipt = MaxPolls

\* The lookups call c has made.
Lookups(c) == rpc[c].get_transaction_receipt

\* The node knows the transaction: it is pending or mined.
OnChain(tx) == tx \in mempool \/ \E i \in 1..Len(mined) : mined[i].tx = tx

\* C13: a call queries the balance only after it read an allowance of at
\* least the amount; a call whose allowance query failed or whose
\* allowance was below the amount has returned the allowance failure
\* without a balance query.
C13_AllowanceBeforeBalance ==
  \A c \in Calls :
    /\ rpc[c].balanceOf > 0
       => /\ rpc[c].allowance = 1
          /\ frame[c].allowance # None
          /\ frame[c].allowance >= frame[c].amount_usdt
    /\ (rpc[c].allowance > 0 /\ frame[c].allowance = None)
       => /\ Returned(c)
          /\ frame[c].result.message.text = "Failed to check allowance"
          /\ rpc[c].balanceOf = 0
    /\ (rpc[c].allowance > 0 /\ frame[c].allowance # None
        /\ frame[c].allowance < frame[c].amount_usdt)
       => /\ Returned(c)
          /\ frame[c].result.message.text
               = "Insufficient allowance. Available: "
          /\ rpc[c].balanceOf = 0

\* A call has returned because its allowance query failed.
C13_Witness ==
  \E c \in Calls :
    /\ Returned(c)
    /\ rpc[c].allowance = 1
    /\ frame[c].allowance = None
    /\ rpc[c].balanceOf = 0

\* C14: in the poll loop every lookup so far was a not-found followed by
\* one sleep of POLL_INTERVAL; the wait ends without a receipt, as a
\* timeout, only with the elapsed time at the timeout or beyond; the
\* lookup that found the receipt was the last one of the call.
C14_PollUntilTimeout ==
  \A c \in Calls :
    /\ frame[c].pc = "poll"
       => Lookups(c) * POLL_INTERVAL = frame[c].elapsed
    /\ frame[c].waited = "timeout"
       => /\ frame[c].elapsed >= timeout
          /\ Lookups(c) * POLL_INTERVAL = frame[c].elapsed
          /\ frame[c].tx_receipt = NoReceipt
    /\ frame[c].waited = "receipt"
       => /\ Returned(c)
          /\ frame[c].tx_receipt.found
          /\ frame[c].elapsed < timeout
          /\ Lookups(c) * POLL_INTERVAL = frame[c].elapsed + POLL_INTERVAL

\* A call has got its receipt after lookups that did not find it.
C14_Witness ==
  \E c \in Calls :
    /\ Returned(c)
    /\ frame[c].waited = "receipt"
    /\ Lookups(c) >= 3

\* C15: a call that has signed its transaction and not yet broadcast it
\* does not carry the nonce of a transaction that is still pending.
C15_NonceNotOfPending ==
  \A c \in Calls :
    (frame[c].signed_txn # NoTx /\ frame[c].broadcast = NoTx)
    => \A tx \in mempool :
         tx.nonce >= Len(mined) => tx.nonce # frame[c].signed_txn.nonce

\* C16: a call whose broadcast the node rejected has returned (False,
\* message) through an except clause, without a receipt lookup.
C16_RejectedBroadcast ==
  \A c \in Calls :
    (rpc[c].send_raw_transaction > 0 /\ frame[c].broadcast = NoTx)
    => /\ Returned(c)
       /\ frame[c].result.success = FALSE
       /\ frame[c].result.message.text
            \in {"Smart contract error: ", "Transaction error: ",
                 "Unexpected error: "}
       /\ Lookups(c) = 0
       /\ frame[c].waited = ""

\* A call has returned "Transaction error: " for a rejected broadcast.
C16_Witness ==
  \E c \in Calls :
    /\ Returned(c)
    /\ rpc[c].send_raw_transaction = 1
    /\ frame[c].broadcast = NoTx
    /\ frame[c].result.message.text = "Transaction error: "

\* C17: a call whose wait timed out has returned (False, ...) and the
\* transaction it broadcast is still on the chain, pending or mined; it
\* can be mined with status 1 after the return (C17_Witness).
C17_TimeoutLeavesTransaction ==
  \A c \in Calls :
    (Returned(c) /\ frame[c].waited = "timeout")
    => /\ frame[c].result.success = FALSE
       /\ frame[c].broadcast # NoTx
       /\ OnChain(frame[c].broadcast)

\* A call has returned (False, ...) on a timeout and its transaction has
\* been mined with status 1 since.
C17_Witness ==
  \E c \in Calls :
    /\ Returned(c)
    /\ frame[c].waited = "timeout"
    /\ frame[c].result.success = FALSE
    /\ \E i \in 1..Len(mined) :
         mined[i].tx = frame[c].broadcast /\ mined[i].status = 1

\* C18: a call that returned (True, ...) had its address validated, read
\* an allowance and a balance of at least the amount, made one broadcast,
\* which the node took, and got the status 1 receipt of that transaction;
\* every other returned call returned (False, ...).
C18_SuccessOnlyIf ==
  \A c \in Calls :
    Returned(c)
    => (frame[c].result.success
        <=> /\ frame[c].valid
            /\ frame[c].allowance # None
            /\ frame[c].allowance >= frame[c].amount_usdt
            /\ frame[c].balance # None
            /\ frame[c].balance >= frame[c].amount_usdt
            /\ rpc[c].send_raw_transaction = 1
            /\ frame[c].broadcast # NoTx
            /\ frame[c].tx_hash = Hash(frame[c].broadcast)
            /\ frame[c].tx_receipt = Receipt(1)
            /\ \E i \in 1..Len(mined) :
                 mined[i].tx = frame[c].broadcast /\ mined[i].status = 1)

\* A call has returned (True, ...) with the balance exactly the amount.
C18_Witness ==
  \E c \in Calls :
    /\ Returned(c)
    /\ frame[c].result.success
    /\ frame[c].amount_usdt > 0
    /\ frame[c].balance = frame[c].amount_usdt

\* C19: a call whose receipt lookup failed with another error than
\* not-found has returned, with time left before the timeout and that
\* lookup its last, (False, "Transaction failed or was reverted"): the
\* message it returns for a timeout and for a status 0 receipt.
C19_LookupError ==
  \A c \in Calls :
    frame[c].waited = "error"
    => /\ Returned(c)
       /\ frame[c].elapsed < timeout
       /\ Lookups(c) * POLL_INTERVAL = frame[c].elapsed + POLL_INTERVAL
       /\ frame[c].tx_receipt = NoReceipt
       /\ frame[c].result.success = FALSE
       /\ frame[c].result.message.text = "Transaction failed or was reverted"
       /\ frame[c].result.message
            = AfterWait(frame[c], NoReceipt).result.message
       /\ frame[c].result.message
            = AfterWait(frame[c], Receipt(0)).result.message

\* A lookup of a call has failed after lookups that did not find the
\* receipt.
C19_Witness ==
  \E c \in Calls :
    /\ Returned(c)
    /\ frame[c].waited = "error"
    /\ Lookups(c) >= 3

=============================================================================
